---- MODULE Spec2Model ----
(***************************************************************************)
(* A model of sans_indexer.py: the page extractor, the token normaliser    *)
(* and eligibility filter, the index builder and the pipeline of main.     *)
(*                                                                         *)
(* Text is modelled as a sequence of characters.  An ASCII character is    *)
(* the one-character string holding it; a non-ASCII character that the     *)
(* source names is a longer string naming it ("RSQUO" is U+2019).          *)
(***************************************************************************)
EXTENDS Integers, Sequences, FiniteSets, TLC

VARIABLES
    pc,            \* position of the run
    word,          \* a raw token handed to strip_characters
    normalized,    \* strip_characters(word).lower()
    renormalized,  \* the same applied to normalized
    doc,           \* the opened document: the raw text of each physical page
    book_starts,   \* --book-starts (1-based)
    skip_first,    \* --skip-first
    skip_last,     \* --skip-last
    raised,        \* the exception that ended the last call, or "none"
    pages,         \* the list extract_book_pages returned
    extracted,     \* the local indexed_pages when extract_book_pages ended
    common_words,  \* the set fetch_common_words returned
    total_words,   \* index_words: first component of the result
    index,         \* index_words: second component, a dict in insertion order
    results,       \* the list build_index_results returned
    args,          \* the parsed command line and the state of the files it names
    calls,         \* the functions main has called, in order
    failed,        \* the function whose exception ended main, or "none"
    output         \* the output file: whether it was written, and its rows

vars == <<pc, word, normalized, renormalized, doc, book_starts, skip_first,
          skip_last, raised, pages, extracted, common_words, total_words,
          index, results, args, calls, failed, output>>

normVars == <<word, normalized, renormalized>>
extractVars == <<doc, book_starts, skip_first, skip_last, raised, pages, extracted>>
indexVars == <<common_words, total_words, index, results>>
mainVars == <<args, calls, failed, output>>

-----------------------------------------------------------------------------
(* Bounds of the model. *)

MaxTokLen == 4      \* longest enumerated raw token
MaxPages == 3       \* most physical pages of a document (extractor)
MaxBooks == 2       \* most books on the command line (extractor)
MaxBookPages == 8   \* most retained pages of one book (index builder)

-----------------------------------------------------------------------------
(* Characters and strings. *)

\* The characters of a TLA+ string literal, as a sequence.
Chars(s) == [i \in 1..Len(s) |-> SubSeq(s, i, i)]

UpperLetters == Chars("ABCDEFGHIJKLMNOPQRSTUVWXYZ")
LowerLetters == Chars("abcdefghijklmnopqrstuvwxyz")
Digits == {"0", "1", "2", "3", "4", "5", "6", "7", "8", "9"}
Whitespace == {" ", "\t", "\n", "\r"}

\* string.printable, as far as a TLA+ string can hold it (no vertical tab,
\* form feed or grave accent).
Printable ==
    { UpperLetters[i] : i \in 1..26 } \cup { LowerLetters[i] : i \in 1..26 }
    \cup Digits \cup Whitespace
    \cup { "!", "\"", "#", "$", "%", "&", "'", "(", ")", "*", "+", ",", "-",
           ".", "/", ":", ";", "<", "=", ">", "?", "@", "[", "\\", "]", "^",
           "_", "{", "|", "}", "~" }

\* str.lower on one character.
LowerOf ==
    [c \in { UpperLetters[i] : i \in 1..26 } |->
        LowerLetters[CHOOSE i \in 1..26 : UpperLetters[i] = c]]

LowerChar(c) == IF c \in DOMAIN LowerOf THEN LowerOf[c] ELSE c

\* str.lower
Lower(w) == [i \in 1..Len(w) |-> LowerChar(w[i])]

\* str.endswith / str.startswith
EndsWith(w, suf) ==
    /\ Len(suf) <= Len(w)
    /\ SubSeq(w, Len(w) - Len(suf) + 1, Len(w)) = suf

StartsWith(w, pre) ==
    /\ Len(pre) <= Len(w)
    /\ SubSeq(w, 1, Len(pre)) = pre

\* str.replace(old, new) for a one-character old.
ReplaceChar(w, old, new) == [i \in 1..Len(w) |-> IF w[i] = old THEN new ELSE w[i]]

\* str.lstrip(set), str.rstrip(set), str.strip(set)
RECURSIVE LStrip(_, _)
LStrip(w, set) ==
    IF w # <<>> /\ w[1] \in set THEN LStrip(Tail(w), set) ELSE w

RECURSIVE RStrip(_, _)
RStrip(w, set) ==
    IF w # <<>> /\ w[Len(w)] \in set
    THEN RStrip(SubSeq(w, 1, Len(w) - 1), set)
    ELSE w

Strip(w, set) == RStrip(LStrip(w, set), set)

-----------------------------------------------------------------------------
(* strip_characters *)

\* chars, line 70
chars ==
    { "(", ")", "'", "\"", ":", ",", "RDQUO", "LDQUO", "LSQUO", "?", ";", "-",
      "BULLET", "RSQUO", "EMDASH", "ELLIPSIS", "[", "]", "!" }

\* suffixes, line 71, in the order of the list
suffixes ==
    << Chars("'s"), Chars("'re"), Chars("'ve"), Chars("'t"),
       Chars("[0]"), Chars("[1]"), Chars("[2]"), Chars("[3]"),
       Chars("[4]"), Chars("[5]"), Chars("[6]") >>

\* The loop of lines 73-75 from the k-th suffix on: each suffix is tried once,
\* in list order, on the word the earlier ones left.
RECURSIVE StripSuffixes(_, _)
StripSuffixes(w, k) ==
    IF k > Len(suffixes) THEN w
    ELSE IF EndsWith(w, suffixes[k])
         THEN StripSuffixes(SubSeq(w, 1, Len(w) - Len(suffixes[k])), k + 1)
         ELSE StripSuffixes(w, k + 1)

strip_characters(w) ==
    RStrip(Strip(StripSuffixes(ReplaceChar(w, "RSQUO", "'"), 1), chars), {"."})

\* The normalisation index_words applies to each token (line 93).
Normalize(w) == Lower(strip_characters(w))

-----------------------------------------------------------------------------
(* remove_non_utf8 and extract_book_pages *)

\* Lines 33-35: a character survives if it is in string.printable or is
\* whitespace.  (The encode/decode of line 34 drops nothing from a str of
\* this alphabet.)
remove_non_utf8(text) ==
    SelectSeq(text, LAMBDA c : c \in Printable \/ c \in Whitespace)

\* Line 43 accepting more skip counts than books.
LengthsMatchLax(bs, sf, sl) == Len(sf) = Len(sl) /\ Len(bs) <= Len(sf)

\* Line 43: the chained comparison of the three lengths.
LengthsMatch(bs, sf, sl) == Len(sf) = Len(sl) /\ Len(sl) = Len(bs)

\* Line 46: 1-based starts to 0-based.
ZeroBased(bs) == [i \in 1..Len(bs) |-> bs[i] - 1]

\* Line 53: the end of book i (i counts from 1 here, from 0 in the source).
BookEnd(bs0, i, total_pages) ==
    IF i + 1 <= Len(bs0) THEN bs0[i + 1] ELSE total_pages

\* Line 55: the bounds test.
OutOfBounds(start, end, total_pages) == start < 0 \/ end > total_pages

\* Line 58.
FirstPage(start, skip) == start + skip

\* Line 59 with skip_last forgotten.
LastPageNoSkip(end, skip) == end

\* Line 59.
LastPage(end, skip) == end - skip

\* Line 63 with skip_first forgotten.
PageNumNoSkip(p, start, skip) == p - start + 1

\* Line 63.
PageNumInBook(p, start, skip) == p - start - skip + 1

\* doc[p] of line 64.  p < total_pages holds where it is used; a negative p
\* counts from the end of the document, as the PDF library's page lookup does.
DocPage(d, p) == d[(p % Len(d)) + 1]

\* Lines 61-66: the inner loop of book i from physical index p on.  A record
\* is (book_num, page_num_in_book, clean_text); phys keeps the index p the
\* record was read at, which the source's tuple does not hold.
RECURSIVE PageLoop(_, _, _, _, _, _, _)
PageLoop(d, book_num, start, skip, p, last, acc) ==
    IF p >= last THEN acc
    ELSE PageLoop(d, book_num, start, skip, p + 1, last,
            IF p < Len(d)
            THEN Append(acc, [book |-> book_num,
                              page |-> PageNumInBook(p, start, skip),
                              phys |-> p,
                              text |-> remove_non_utf8(DocPage(d, p))])
            ELSE acc)

\* Lines 50-67: the outer loop from book i on.
RECURSIVE BookLoop(_, _, _, _, _, _)
BookLoop(d, bs0, sf, sl, i, acc) ==
    IF i > Len(bs0) THEN [raised |-> "none", indexed_pages |-> acc]
    ELSE LET start == bs0[i]
             end == BookEnd(bs0, i, Len(d))
         IN  IF OutOfBounds(start, end, Len(d))
             THEN [raised |-> "ValueError: out of bounds", indexed_pages |-> acc]
             ELSE BookLoop(d, bs0, sf, sl, i + 1,
                      PageLoop(d, i, start, sf[i],
                               FirstPage(start, sf[i]), LastPage(end, sl[i]), acc))

\* Lines 37-67.  The result names the exception raised ("none" when the list
\* is returned) and the local indexed_pages at that point.
extract_book_pages(d, bs, sf, sl) ==
    IF ~LengthsMatch(bs, sf, sl)
    THEN [raised |-> "ValueError: lengths must match", indexed_pages |-> <<>>]
    ELSE BookLoop(d, ZeroBased(bs), sf, sl, 1, <<>>)

-----------------------------------------------------------------------------
(* word_is_eligible and index_words *)

\* The URL prefixes of line 83.
HttpPrefix == Chars("http://")
HttpsPrefix == Chars("https://")

\* Lines 78-85 without the test of the word with "s" appended.
EligibleIgnoringPlural(w, common) ==
    /\ ~(Len(w) < 3 \/ w[1] \in Digits)
    /\ Lower(w) \notin common
    /\ ~(StartsWith(w, HttpPrefix) \/ StartsWith(w, HttpsPrefix))

\* Lines 78-85.
word_is_eligible(w, common) ==
    /\ ~(Len(w) < 3 \/ w[1] \in Digits)
    /\ ~(Lower(w) \in common \/ Lower(w) \o <<"s">> \in common)
    /\ ~(StartsWith(w, HttpPrefix) \/ StartsWith(w, HttpsPrefix))

\* str.split() with no argument: the maximal runs of non-whitespace, from
\* character i on; cur is the run being read.
RECURSIVE SplitFrom(_, _, _, _)
SplitFrom(text, i, cur, acc) ==
    IF i > Len(text)
    THEN IF cur = <<>> THEN acc ELSE Append(acc, cur)
    ELSE IF text[i] \in Whitespace
         THEN SplitFrom(text, i + 1, <<>>, IF cur = <<>> THEN acc ELSE Append(acc, cur))
         ELSE SplitFrom(text, i + 1, Append(cur, text[i]), acc)

Split(text) == SplitFrom(text, 1, <<>>, <<>>)

\* ' '.join(list)
RECURSIVE JoinWith(_, _)
JoinWith(list, sep) ==
    IF list = <<>> THEN <<>>
    ELSE IF Len(list) = 1 THEN list[1]
    ELSE list[1] \o sep \o JoinWith(Tail(list), sep)

\* Line 92.
CleanText(text) ==
    JoinWith(Split(ReplaceChar(ReplaceChar(text, "\n", " "), "\t", " ")), <<" ">>)

\* Line 93.
PageWords(text) ==
    LET raw == Split(CleanText(text))
    IN  [k \in 1..Len(raw) |-> Normalize(raw[k])]

\* Line 94.
Filtered(text, common) ==
    SelectSeq(PageWords(text), LAMBDA w : word_is_eligible(w, common))

\* index[key] = value on a dict kept in insertion order: a key already there
\* keeps its place and takes the new value.
DictSet(d, key, value) ==
    IF \E k \in 1..Len(d) : d[k].key = key
    THEN [k \in 1..Len(d) |-> IF d[k].key = key THEN [key |-> key, words |-> value] ELSE d[k]]
    ELSE Append(d, [key |-> key, words |-> value])

\* Lines 91-96 from page k on.
RECURSIVE IndexLoop(_, _, _, _, _)
IndexLoop(pgs, common, k, tw, idx) ==
    IF k > Len(pgs) THEN [total_words |-> tw, index |-> idx]
    ELSE LET filtered == Filtered(pgs[k].text, common)
         IN  IndexLoop(pgs, common, k + 1, tw \o filtered,
                       DictSet(idx, <<pgs[k].book, pgs[k].page>>, filtered))

\* Lines 87-98.
index_words(pgs, common) == IndexLoop(pgs, common, 1, <<>>, <<>>)

-----------------------------------------------------------------------------
(* build_index_results *)

\* The refusal threshold of line 111.
MaxRefs == 15

\* Code-point order of the characters, for comparing strings.
CodePointOrder ==
    <<"\t", "\n", "\r">>
    \o Chars(" !\"#$%&'()*+,-./0123456789:;<=>?@ABCDEFGHIJKLMNOPQRSTUVWXYZ[\\]^_")
    \o Chars("abcdefghijklmnopqrstuvwxyz{|}~")
    \o <<"EMDASH", "LSQUO", "RSQUO", "LDQUO", "RDQUO", "BULLET", "ELLIPSIS">>

OrdOf ==
    [c \in { CodePointOrder[k] : k \in 1..Len(CodePointOrder) } |->
        CHOOSE k \in 1..Len(CodePointOrder) : CodePointOrder[k] = c]

Ord(c) == OrdOf[c]

\* a < b on str: the first differing character decides, a proper prefix is less.
RECURSIVE StrLess(_, _)
StrLess(a, b) ==
    IF b = <<>> THEN FALSE
    ELSE IF a = <<>> THEN TRUE
    ELSE IF a[1] = b[1] THEN StrLess(Tail(a), Tail(b))
    ELSE Ord(a[1]) < Ord(b[1])

\* str.casefold, on this alphabet.
CaseFold(w) == Lower(w)

\* Line 102: sorted(set(total_words), key=str.casefold).
RECURSIVE SortedByKey(_)
SortedByKey(S) ==
    IF S = {} THEN <<>>
    ELSE LET m == CHOOSE w \in S : \A v \in S : ~StrLess(CaseFold(v), CaseFold(w))
         IN  <<m>> \o SortedByKey(S \ {m})

RECURSIVE ReverseSeq(_)
ReverseSeq(q) == IF q = <<>> THEN <<>> ELSE Append(ReverseSeq(Tail(q)), Head(q))

\* Line 102 with the words in another order than sorted.
UniqueWordsUnsorted(tw) == ReverseSeq(SortedByKey({ tw[k] : k \in 1..Len(tw) }))

\* Line 102.
UniqueWords(tw) == SortedByKey({ tw[k] : k \in 1..Len(tw) })

\* word in words_on_page (line 107)
InList(w, list) == \E k \in 1..Len(list) : list[k] = w

\* book_pages[book].append(page) on a defaultdict(list) kept in insertion order.
AppendPage(bp, book, page) ==
    IF \E k \in 1..Len(bp) : bp[k].book = book
    THEN [k \in 1..Len(bp) |->
            IF bp[k].book = book
            THEN [book |-> book, pages |-> Append(bp[k].pages, page)]
            ELSE bp[k]]
    ELSE Append(bp, [book |-> book, pages |-> <<page>>])

\* Lines 105-108 from entry k of index on.
RECURSIVE BookPagesFrom(_, _, _, _)
BookPagesFrom(w, idx, k, bp) ==
    IF k > Len(idx) THEN bp
    ELSE BookPagesFrom(w, idx, k + 1,
            IF InList(w, idx[k].words)
            THEN AppendPage(bp, idx[k].key[1], idx[k].key[2])
            ELSE bp)

BookPages(w, idx) == BookPagesFrom(w, idx, 1, <<>>)

\* Line 110.
RECURSIVE TotalRefs(_)
TotalRefs(bp) == IF bp = <<>> THEN 0 ELSE Len(Head(bp).pages) + TotalRefs(Tail(bp))

\* Line 111 with > for >=.
DroppedAbove(total_refs) == total_refs = 0 \/ total_refs > MaxRefs

\* Line 111: the entry is dropped.
Dropped(total_refs) == total_refs = 0 \/ total_refs >= MaxRefs

\* sorted() on a list of integers: insertion into a sorted list.
RECURSIVE InsertSorted(_, _)
InsertSorted(q, x) ==
    IF q = <<>> THEN <<x>>
    ELSE IF x < Head(q) THEN <<x>> \o q
    ELSE <<Head(q)>> \o InsertSorted(Tail(q), x)

RECURSIVE SortInts(_)
SortInts(q) == IF q = <<>> THEN <<>> ELSE InsertSorted(SortInts(Tail(q)), Head(q))

\* sorted(book_pages.items()): by book number (the keys are distinct).
RECURSIVE SortItems(_)
SortItems(bp) ==
    IF bp = <<>> THEN <<>>
    ELSE LET m == CHOOSE k \in 1..Len(bp) : \A j \in 1..Len(bp) : bp[k].book <= bp[j].book
         IN  <<bp[m]>> \o SortItems([j \in 1..(Len(bp) - 1) |->
                                        IF j < m THEN bp[j] ELSE bp[j + 1]])

\* str(n) for n >= 0.
DecimalDigits == Chars("0123456789")

RECURSIVE IntToStr(_)
IntToStr(n) ==
    IF n < 10 THEN <<DecimalDigits[n + 1]>>
    ELSE IntToStr(n \div 10) \o <<DecimalDigits[(n % 10) + 1]>>

\* Line 115: one book of an entry.
FormatBook(item) ==
    LET sorted == SortInts(item.pages)
    IN  IntToStr(item.book) \o <<"(">>
        \o JoinWith([k \in 1..Len(sorted) |-> IntToStr(sorted[k])], <<",", " ">>)
        \o <<")">>

\* Lines 114-117.
Formatted(bp) ==
    LET items == SortItems(bp)
    IN  JoinWith([k \in 1..Len(items) |-> FormatBook(items[k])], <<" ", "|", " ">>)

\* Lines 104-118 from word k of unique_words on.
RECURSIVE ResultsFrom(_, _, _, _)
ResultsFrom(uw, idx, k, res) ==
    IF k > Len(uw) THEN res
    ELSE LET bp == BookPages(uw[k], idx)
         IN  ResultsFrom(uw, idx, k + 1,
                IF Dropped(TotalRefs(bp)) THEN res
                ELSE Append(res, [word |-> uw[k], refs |-> Formatted(bp)]))

\* Lines 100-120.
build_index_results(tw, idx) == ResultsFrom(UniqueWords(tw), idx, 1, <<>>)

-----------------------------------------------------------------------------
(* fetch_common_words and the writers *)

\* Iterating a text file: the lines, split at "\n".
RECURSIVE LinesFrom(_, _, _, _)
LinesFrom(text, i, cur, acc) ==
    IF i > Len(text)
    THEN IF cur = <<>> THEN acc ELSE Append(acc, cur)
    ELSE IF text[i] = "\n"
         THEN LinesFrom(text, i + 1, <<>>, Append(acc, Append(cur, "\n")))
         ELSE LinesFrom(text, i + 1, Append(cur, text[i]), acc)

\* Lines 23-31.  content is what the file (custom) or the URL (default) holds.
fetch_common_words(custom, content) ==
    IF custom
    THEN LET lines == LinesFrom(content, 1, <<>>, <<>>)
         IN  { Lower(Strip(lines[k], Whitespace)) :
                 k \in { j \in 1..Len(lines) : Strip(lines[j], Whitespace) # <<>> } }
    ELSE LET ws == Split(Lower(content))
         IN  { ws[k] : k \in 1..Len(ws) }

\* Lines 122-125: the lines written.
write_txt(res) == [k \in 1..Len(res) |-> res[k].word \o Chars(": ") \o res[k].refs \o <<"\n">>]

\* Lines 128-133: the rows handed to the csv writer.
write_csv(res) ==
    << <<Chars("word"), Chars("page_refs")>> >>
    \o [k \in 1..Len(res) |-> <<res[k].word, res[k].refs>>]

-----------------------------------------------------------------------------
(* Inputs *)

\* All sequences over S of length at most n.
SeqsUpTo(S, n) == UNION { [1..k -> S] : k \in 0..n }

\* Sample page texts.
TextA == Chars("Router nmap\tTCP/IP[2] the")
TextB == Chars("the router's\nNmap, 3com zeta")
TextC == Chars("routers  http://a.b (Zeta) the")

\* A document of n pages.
SampleDoc(n) == [p \in 1..n |-> IF p % 3 = 1 THEN TextA ELSE IF p % 3 = 2 THEN TextB ELSE TextC]

\* Sample common-word lists, as loaded.
CommonLists ==
    { {Chars("the"), Chars("router")},
      {Chars("the"), Chars("routers"), Chars("nmap")},
      {Chars("the")} }

IdleNorm == word = <<>> /\ normalized = <<>> /\ renormalized = <<>>
IdleExtract ==
    /\ doc = <<>> /\ book_starts = <<>> /\ skip_first = <<>> /\ skip_last = <<>>
    /\ raised = "none" /\ pages = <<>> /\ extracted = <<>>
IdleIndex == common_words = {} /\ total_words = <<>> /\ index = <<>> /\ results = <<>>
NoOutput == [written |-> FALSE, rows |-> <<>>]
IdleMain ==
    /\ args = [csv |-> FALSE, wordlist |-> FALSE, wordlist_ok |-> TRUE,
               pdf_ok |-> TRUE, out_ok |-> TRUE, content |-> <<>>]
    /\ calls = <<>> /\ failed = "none" /\ output = NoOutput

-----------------------------------------------------------------------------
(* SpecNorm: the normalisation of one token, applied once and then again. *)

TokAlphabet == {"a", "S", "s", "'", "[", "2", "]", ".", ")", "RSQUO"}

SampleTokens ==
    { Chars("TCP/IP[2]"), Chars("Router"), Chars("router's"), Chars("IT'S"),
      Chars("it's."), Chars("(foo)."), Chars("a's[2]"), Chars("don't"),
      Chars("we've"), Chars("they're") }

RawTokens == SeqsUpTo(TokAlphabet, MaxTokLen) \cup SampleTokens

InitNorm ==
    /\ pc = "raw"
    /\ word \in RawTokens
    /\ normalized = <<>> /\ renormalized = <<>>
    /\ IdleExtract /\ IdleIndex /\ IdleMain

NormalizeToken ==
    /\ pc = "raw"
    /\ normalized' = Normalize(word)
    /\ pc' = "normalized"
    /\ UNCHANGED <<word, renormalized, extractVars, indexVars, mainVars>>

RenormalizeToken ==
    /\ pc = "normalized"
    /\ renormalized' = Normalize(normalized)
    /\ pc' = "renormalized"
    /\ UNCHANGED <<word, normalized, extractVars, indexVars, mainVars>>

NextNorm == NormalizeToken \/ RenormalizeToken

SpecNorm == InitNorm /\ [][NextNorm]_vars

\* C4: tokenization is idempotent: normalising an already normalised token
\* gives the same token back.
C4_Idempotent == pc = "renormalized" => renormalized = normalized

\* C8: the normalised token ends with none of the listed suffixes ('s, 're,
\* 've, 't, [0]..[6]), whatever the case of the suffix in the raw token and
\* whatever follows it or is stacked on it.
C8_NoListedSuffix ==
    pc \in {"normalized", "renormalized"} =>
        \A k \in 1..Len(suffixes) : ~EndsWith(normalized, suffixes[k])

-----------------------------------------------------------------------------
(* SpecExtract: one call of extract_book_pages. *)

StartValues == 0..(MaxPages + 1)
SkipValues == {-1, 0, 1}
ListLengths == 0..MaxBooks

\* Lists of equal length take every value; lists of unequal length, whose
\* elements the call never reads, take every combination of lengths.
InitExtract ==
    /\ pc = "call"
    /\ \E n \in 1..MaxPages : doc = SampleDoc(n)
    /\ \/ \E n \in ListLengths :
            /\ book_starts \in [1..n -> StartValues]
            /\ skip_first \in [1..n -> SkipValues]
            /\ skip_last \in [1..n -> SkipValues]
       \/ \E nb \in ListLengths, nf \in ListLengths, nl \in ListLengths :
            /\ ~(nb = nf /\ nf = nl)
            /\ book_starts = [k \in 1..nb |-> k]
            /\ skip_first = [k \in 1..nf |-> 0]
            /\ skip_last = [k \in 1..nl |-> 0]
    /\ raised = "none" /\ pages = <<>> /\ extracted = <<>>
    /\ IdleNorm /\ IdleIndex /\ IdleMain

ExtractCall ==
    /\ pc = "call"
    /\ LET r == extract_book_pages(doc, book_starts, skip_first, skip_last)
       IN  /\ raised' = r.raised
           /\ extracted' = r.indexed_pages
           /\ pages' = IF r.raised = "none" THEN r.indexed_pages ELSE <<>>
           /\ pc' = IF r.raised = "none" THEN "returned" ELSE "raised"
    /\ UNCHANGED <<doc, book_starts, skip_first, skip_last, normVars, indexVars, mainVars>>

NextExtract == ExtractCall

SpecExtract == InitExtract /\ [][NextExtract]_vars

total_pages == Len(doc)
EqualLengths == Len(book_starts) = Len(skip_first) /\ Len(skip_first) = Len(skip_last)

\* C1: with lists of unequal length the call ends in the validation error,
\* returns no list and has extracted no page.
C1_LengthMismatchRaises ==
    (pc # "call" /\ ~EqualLengths) =>
        /\ pc = "raised"
        /\ raised = "ValueError: lengths must match"
        /\ extracted = <<>> /\ pages = <<>>

C1_Witness ==
    /\ pc = "raised" /\ ~EqualLengths
    /\ Len(book_starts) >= 1 /\ Len(skip_first) > Len(book_starts)

\* The 0-based start of book i and its end (the next book's start, or the
\* page count), as the claims name them.
StartOf(i) == book_starts[i] - 1
EndOf(i) == IF i < Len(book_starts) THEN book_starts[i + 1] - 1 ELSE total_pages

\* C2: with lists of equal length, a book whose start or end lies outside the
\* document's pages (a 1-based start above the page count included) makes the
\* call fail with the bounds error.
C2_OutOfRangeRaises ==
    ( /\ pc # "call" /\ EqualLengths
      /\ \E i \in 1..Len(book_starts) :
            \/ book_starts[i] < 1 \/ book_starts[i] > total_pages
            \/ EndOf(i) < 0 \/ EndOf(i) > total_pages )
    => (pc = "raised" /\ raised = "ValueError: out of bounds")

\* C3: in the returned list the first record of each book has in-book page 1,
\* each later record of the book the next number, every number is
\* phys - start - skip_first + 1, and no (book, page) pair occurs twice.
C3_PageNumbers ==
    pc = "returned" =>
        /\ \A k \in 1..Len(pages) :
              /\ pages[k].page = pages[k].phys - StartOf(pages[k].book)
                                  - skip_first[pages[k].book] + 1
              /\ IF \E j \in 1..(k - 1) : pages[j].book = pages[k].book
                 THEN /\ pages[k - 1].book = pages[k].book
                      /\ pages[k].page = pages[k - 1].page + 1
                 ELSE pages[k].page = 1
        /\ \A j, k \in 1..Len(pages) :
              (pages[j].book = pages[k].book /\ pages[j].page = pages[k].page) => j = k

C3_Witness ==
    /\ pc = "returned"
    /\ \E j, k \in 1..Len(pages) :
          /\ j < k /\ pages[j].book = pages[k].book
          /\ skip_first[pages[k].book] = 1
    /\ \E k \in 1..Len(pages) : pages[k].book = 2

\* The premise of C10: equal lengths, strictly increasing in-bounds starts,
\* non-negative skips.
WellFormedBooks ==
    /\ EqualLengths
    /\ \A i \in 1..Len(book_starts) : book_starts[i] >= 1 /\ book_starts[i] <= total_pages
    /\ \A i \in 1..(Len(book_starts) - 1) : book_starts[i] < book_starts[i + 1]
    /\ \A i \in 1..Len(skip_first) : skip_first[i] >= 0 /\ skip_last[i] >= 0

\* The physical pages book i keeps.
Retained(i) ==
    { p \in 0..(total_pages - 1) :
        StartOf(i) + skip_first[i] <= p /\ p < EndOf(i) - skip_last[i] }

\* C10: for well-formed books the call returns; the records of book i are
\* exactly the pages of Retained(i), the list is in document order, and no
\* physical page occurs twice or under two books.
C10_PagePartition ==
    (pc # "call" /\ WellFormedBooks) =>
        /\ pc = "returned"
        /\ \A i \in 1..Len(book_starts) :
              { pages[k].phys : k \in { j \in 1..Len(pages) : pages[j].book = i } }
                  = Retained(i)
        /\ \A k \in 1..Len(pages) : pages[k].book \in 1..Len(book_starts)
        /\ \A j, k \in 1..Len(pages) : j < k => pages[j].phys < pages[k].phys

C10_Witness ==
    /\ pc = "returned" /\ WellFormedBooks
    /\ Len(book_starts) = 2
    /\ Retained(1) = {} /\ skip_first[1] + skip_last[1] > 0
    /\ Cardinality(Retained(2)) = 1 /\ skip_last[2] = 1
    /\ Len(pages) = 1

-----------------------------------------------------------------------------
(* SpecIndex: index_words, then build_index_results, on the pages of two books. *)

\* The pages of book b as extract_book_pages returns them: n of them,
\* numbered from 1, the odd-numbered ones holding one text and the
\* even-numbered ones another.
BookRecords(b, layout, phys0) ==
    LET odd == remove_non_utf8(layout.texts[1])
        even == remove_non_utf8(layout.texts[2])
    IN  [k \in 1..layout.n |->
            [book |-> b, page |-> k, phys |-> phys0 + k - 1,
             text |-> IF k % 2 = 1 THEN odd ELSE even]]

TextPairs == {<<TextA, TextB>>, <<TextB, TextA>>, <<TextA, TextA>>, <<TextC, TextB>>}
BookLayouts == [n : 0..MaxBookPages, texts : TextPairs]

InitIndex ==
    /\ pc = "pages"
    /\ \E l1 \in BookLayouts, l2 \in BookLayouts :
          pages = BookRecords(1, l1, 0) \o BookRecords(2, l2, l1.n)
    /\ common_words \in CommonLists
    /\ total_words = <<>> /\ index = <<>> /\ results = <<>>
    /\ doc = <<>> /\ book_starts = <<>> /\ skip_first = <<>> /\ skip_last = <<>>
    /\ raised = "none" /\ extracted = <<>>
    /\ IdleNorm /\ IdleMain

IndexWords ==
    /\ pc = "pages"
    /\ LET r == index_words(pages, common_words)
       IN  /\ total_words' = r.total_words
           /\ index' = r.index
    /\ pc' = "indexed"
    /\ UNCHANGED <<common_words, results, normVars, extractVars, mainVars>>

BuildIndexResults ==
    /\ pc = "indexed"
    /\ results' = build_index_results(total_words, index)
    /\ pc' = "built"
    /\ UNCHANGED <<common_words, total_words, index, normVars, extractVars, mainVars>>

NextIndex == IndexWords \/ BuildIndexResults

SpecIndex == InitIndex /\ [][NextIndex]_vars

\* The words of the result, and the raw tokens of the pages.
ResultWords == { results[k].word : k \in 1..Len(results) }
RawTokensOf(text) == { Split(text)[k] : k \in 1..Len(Split(text)) }

\* C5: no word of the result is in the common word-list, nor is it with an
\* "s" appended; page text is compared whatever its case.
C5_CommonWordsExcluded ==
    pc = "built" =>
        \A w \in ResultWords :
            /\ w \notin common_words
            /\ w \o <<"s">> \notin common_words
            /\ Lower(w) \notin common_words

C5_Witness ==
    /\ pc = "built"
    /\ Chars("router") \in common_words
    /\ \E k \in 1..Len(pages) : Chars("Router") \in RawTokensOf(pages[k].text)
    /\ Chars("zeta") \in ResultWords

\* The locations whose word list holds w.
Locations(w) ==
    { index[k].key : k \in { j \in 1..Len(index) : InList(w, index[j].words) } }

\* The (book, page) pairs a formatted location string lists, in its order:
\* a number before "(" is a book, a number before "," or ")" a page of it.
DigitValue(c) == CHOOSE d \in 0..9 : DecimalDigits[d + 1] = c

RECURSIVE ParseRefs(_, _, _, _, _)
ParseRefs(str, i, num, book, acc) ==
    IF i > Len(str) THEN acc
    ELSE IF str[i] \in Digits
         THEN ParseRefs(str, i + 1, 10 * num + DigitValue(str[i]), book, acc)
    ELSE IF str[i] = "("
         THEN ParseRefs(str, i + 1, 0, num, acc)
    ELSE IF str[i] \in {",", ")"}
         THEN ParseRefs(str, i + 1, 0, book, Append(acc, <<book, num>>))
    ELSE ParseRefs(str, i + 1, num, book, acc)

Listed(str) == ParseRefs(str, 1, 0, 0, <<>>)

\* C6: a word of total_words has an entry exactly when the number n of its
\* locations is between 1 and 14; the entry lists those n locations, each
\* once; nothing else has an entry.
C6_FrequencyFilter ==
    pc = "built" =>
        /\ \A w \in { total_words[k] : k \in 1..Len(total_words) } :
              LET locs == Locations(w)
                  n == Cardinality(locs)
                  entries == { k \in 1..Len(results) : results[k].word = w }
              IN  /\ (entries # {}) <=> (1 <= n /\ n <= 14)
                  /\ \A k \in entries :
                        LET listed == Listed(results[k].refs)
                        IN  /\ Len(listed) = n
                            /\ { listed[j] : j \in 1..n } = locs
        /\ \A w \in ResultWords : \E k \in 1..Len(total_words) : total_words[k] = w

C6_Witness ==
    /\ pc = "built"
    /\ results # <<>>
    /\ \E k \in 1..Len(total_words) :
          /\ Cardinality(Locations(total_words[k])) = 15
          /\ total_words[k] \notin ResultWords

\* The location string the claim describes for a set of locations: books
\* ascending, joined by " | ", each book(p1, p2, ...) with pages ascending.
RECURSIVE Ascending(_)
Ascending(S) ==
    IF S = {} THEN <<>>
    ELSE LET m == CHOOSE x \in S : \A y \in S : x <= y
         IN  <<m>> \o Ascending(S \ {m})

ExpectedRefs(locs) ==
    LET books == Ascending({ l[1] : l \in locs })
        one(b) ==
            LET ps == Ascending({ l[2] : l \in { x \in locs : x[1] = b } })
            IN  IntToStr(b) \o <<"(">>
                \o JoinWith([k \in 1..Len(ps) |-> IntToStr(ps[k])], <<",", " ">>)
                \o <<")">>
    IN  JoinWith([k \in 1..Len(books) |-> one(books[k])], <<" ", "|", " ">>)

\* C7: the result is sorted case-insensitively by word with no word twice,
\* and each entry's string lists books ascending, separated by " | ", as
\* book(p1, p2, ...) with pages ascending; locations (1,2) and (2,1) alone
\* give "1(2) | 2(1)".
C7_OutputOrdering ==
    pc = "built" =>
        /\ \A k \in 1..(Len(results) - 1) :
              StrLess(CaseFold(results[k].word), CaseFold(results[k + 1].word))
        /\ \A k \in 1..Len(results) :
              /\ results[k].refs = ExpectedRefs(Locations(results[k].word))
              /\ Locations(results[k].word) = {<<1, 2>>, <<2, 1>>}
                    => results[k].refs = Chars("1(2) | 2(1)")

C7_Witness ==
    /\ pc = "built"
    /\ Len(results) >= 3
    /\ \E k \in 1..Len(results) : Locations(results[k].word) = {<<1, 2>>, <<2, 1>>}
    /\ \E k \in 1..Len(results) : <<1, 1>> \in Locations(results[k].word)
                                  /\ <<1, 3>> \in Locations(results[k].word)

-----------------------------------------------------------------------------
(* SpecMain: one run of main, after parse_arguments has returned. *)

\* Command lines: book_starts, skip_first, skip_last.
BookArgs ==
    { << <<1>>, <<0>>, <<0>> >>,
      << <<1, 2>>, <<0, 0>>, <<0, 1>> >>,
      << <<1, 3>>, <<1, 0>>, <<0, 0>> >>,
      << <<1>>, <<0, 0>>, <<0>> >>,
      << <<0>>, <<0>>, <<0>> >> }

\* What a custom word-list file, or the default URL, holds.
WordListFiles == { Chars("the\nRouter\n\n nmap \n"), Chars("The\nzeta") }
WordListBodies == { Chars("the routers\nNMAP"), Chars("the") }

InitMain ==
    /\ pc = "main"
    /\ \E n \in 1..MaxPages : doc = SampleDoc(n)
    /\ \E b \in BookArgs : book_starts = b[1] /\ skip_first = b[2] /\ skip_last = b[3]
    /\ \E csv \in BOOLEAN, wl \in BOOLEAN, wok \in BOOLEAN, pok \in BOOLEAN, ook \in BOOLEAN :
       \E c \in IF wl THEN WordListFiles ELSE WordListBodies :
          args = [csv |-> csv, wordlist |-> wl, wordlist_ok |-> wok,
                  pdf_ok |-> pok, out_ok |-> ook, content |-> c]
    /\ raised = "none" /\ pages = <<>> /\ extracted = <<>>
    /\ calls = <<>> /\ failed = "none" /\ output = NoOutput
    /\ IdleNorm /\ IdleIndex

\* An exception leaves main: nothing catches it (lines 136-153).
Abort(stage) == failed' = stage /\ pc' = "aborted"

\* Line 141.
MainFetch ==
    /\ pc = "main"
    /\ calls' = Append(calls, "fetch_common_words")
    /\ IF args.wordlist_ok
       THEN /\ common_words' = fetch_common_words(args.wordlist, args.content)
            /\ pc' = "fetched"
            /\ UNCHANGED failed
       ELSE /\ Abort("fetch_common_words")
            /\ UNCHANGED common_words
    /\ UNCHANGED <<normVars, extractVars, total_words, index, results, args, output>>

\* Line 142, with extract_book_pages failing and the failure swallowed.
MainExtractLenient ==
    /\ pc = "fetched"
    /\ calls' = Append(calls, "extract_book_pages")
    /\ LET r == extract_book_pages(doc, book_starts, skip_first, skip_last)
       IN  IF args.pdf_ok /\ r.raised = "none"
           THEN /\ pages' = r.indexed_pages /\ extracted' = r.indexed_pages
                /\ pc' = "extracted"
                /\ UNCHANGED <<raised, failed>>
           ELSE /\ raised' = IF args.pdf_ok THEN r.raised ELSE "FileNotFoundError"
                /\ failed' = "extract_book_pages"
                /\ pc' = "extracted"
                /\ UNCHANGED <<pages, extracted>>
    /\ UNCHANGED <<normVars, doc, book_starts, skip_first, skip_last, indexVars, args, output>>

\* Line 142.  fitz.open (line 39) fails on a missing or unreadable file.
MainExtract ==
    /\ pc = "fetched"
    /\ calls' = Append(calls, "extract_book_pages")
    /\ IF ~args.pdf_ok
       THEN /\ raised' = "FileNotFoundError"
            /\ Abort("extract_book_pages")
            /\ UNCHANGED <<pages, extracted>>
       ELSE LET r == extract_book_pages(doc, book_starts, skip_first, skip_last)
            IN  /\ raised' = r.raised
                /\ extracted' = r.indexed_pages
                /\ IF r.raised = "none"
                   THEN pages' = r.indexed_pages /\ pc' = "extracted" /\ UNCHANGED failed
                   ELSE Abort("extract_book_pages") /\ UNCHANGED pages
    /\ UNCHANGED <<normVars, doc, book_starts, skip_first, skip_last, indexVars, args, output>>

\* Line 144.
MainIndexWords ==
    /\ pc = "extracted"
    /\ calls' = Append(calls, "index_words")
    /\ LET r == index_words(pages, common_words)
       IN  total_words' = r.total_words /\ index' = r.index
    /\ pc' = "indexed"
    /\ UNCHANGED <<normVars, extractVars, common_words, results, args, failed, output>>

\* Line 147.
MainBuildIndex ==
    /\ pc = "indexed"
    /\ calls' = Append(calls, "build_index_results")
    /\ results' = build_index_results(total_words, index)
    /\ pc' = "built"
    /\ UNCHANGED <<normVars, extractVars, common_words, total_words, index, args, failed, output>>

\* Lines 150-151.  open (line 129) fails on an unwritable path.
MainWriteCsv ==
    /\ pc = "built" /\ args.csv
    /\ calls' = Append(calls, "write_csv")
    /\ IF args.out_ok
       THEN /\ output' = [written |-> TRUE, rows |-> write_csv(results)]
            /\ pc' = "written"
            /\ UNCHANGED failed
       ELSE /\ Abort("write_csv")
            /\ UNCHANGED output
    /\ UNCHANGED <<normVars, extractVars, indexVars, args>>

\* Lines 152-153.  open (line 123) fails on an unwritable path.
MainWriteTxt ==
    /\ pc = "built" /\ ~args.csv
    /\ calls' = Append(calls, "write_txt")
    /\ IF args.out_ok
       THEN /\ output' = [written |-> TRUE, rows |-> write_txt(results)]
            /\ pc' = "written"
            /\ UNCHANGED failed
       ELSE /\ Abort("write_txt")
            /\ UNCHANGED output
    /\ UNCHANGED <<normVars, extractVars, indexVars, args>>

NextMain ==
    \/ MainFetch
    \/ MainExtract
    \/ MainIndexWords
    \/ MainBuildIndex
    \/ MainWriteCsv
    \/ MainWriteTxt

SpecMain == InitMain /\ [][NextMain]_vars

\* The stages of a run that writes with the given writer.
Pipeline(writer) ==
    <<"fetch_common_words", "extract_book_pages", "index_words",
      "build_index_results", writer>>

\* C9: the stages run at most once each, in the order load, extract, index,
\* build, write, with the writer --csv selects and never both; after a stage
\* fails none runs; the output file is written only when all five have run
\* and none failed.
C9_PipelineOrder ==
    LET want == Pipeline(IF args.csv THEN "write_csv" ELSE "write_txt")
    IN  /\ Len(calls) <= Len(want)
        /\ \A k \in 1..Len(calls) : k <= Len(want) => calls[k] = want[k]
        /\ failed # "none" => (calls # <<>> /\ calls[Len(calls)] = failed)
        /\ output.written => (failed = "none" /\ calls = want)

C9_Witness ==
    /\ pc = "written" /\ output.written /\ args.csv
    /\ Len(output.rows) >= 3

====
